---- MODULE Spec2Model ----
(***************************************************************************)
(* Resilient Visual Interaction Core of veritas_core: the goal-oriented    *)
(* agent (engine/agent.rs), the semantic healer (engine/semantic_healer.rs),*)
(* the neural locator (engine/neural_locator.rs) and the state-change      *)
(* observer (engine/observer.rs).                                          *)
(*                                                                         *)
(* Strings the code searches or edits are sequences of one-character       *)
(* strings; string constants that are only stored and compared are TLA+    *)
(* strings.  f32 scores are fixed-point integers in units of 1/Scale.      *)
(***************************************************************************)
EXTENDS Integers, Sequences, FiniteSets, TLC

VARIABLES
    \* ---- GoalOrientedAgent (agent.rs) ----
    world_model,     \* GoalOrientedAgent.world_model: PageState -> Vec<(action, PageState)>
    pc,              \* position of the agent's thread inside execute / find_path
    goal,            \* request.goal of the call in progress
    target_state,    \* execute: target_state
    steps,           \* execute: steps (Vec<AgentStep>)
    step_counter,    \* execute: step_counter
    total_duration,  \* execute: total_duration
    path_iter,       \* execute: the part of `path` the for loop has not consumed yet
    calls,           \* the calls execute has made so far to its collaborators
    result,          \* the GoalResult execute returned (None while it runs)
    \* ---- find_path locals ----
    fp_start,        \* find_path: start
    fp_target,       \* find_path: target
    queue,           \* find_path: queue (VecDeque<(PageState, path)>)
    visited,         \* find_path: visited (HashSet<PageState>)
    loop_count,      \* find_path: loop_count
    fp_result,       \* find_path: the returned Option<Vec<(String, PageState)>>
    \* ---- SemanticHealer (semantic_healer.rs) ----
    threshold,       \* SemanticHealer.threshold
    h_pc,            \* position of the caller's thread inside heal
    heal_req,        \* the HealRequest of the call in progress
    h_next,          \* heal: index of the candidate the for loop takes next
    best_candidate,  \* heal: best_candidate
    best_score,      \* heal: best_score
    best_reason,     \* heal: best_reason, as (combined, str_sim, visual_sim)
    audit_trail,     \* heal: audit_trail
    heal_result,     \* the HealResult heal returned (None while it runs)
    \* ---- NeuralLocator (neural_locator.rs) ----
    neural_map,      \* NeuralLocator.neural_map: NeuralMap.memory, intent -> NeuralMapEntry
    l_pc,            \* position of the caller's thread inside analyze
    vision_req,      \* the VisionRequest of the last analyze call
    img,             \* analyze: img, as (width, height)
    vision_result,   \* the VisionResult the last completed analyze returned
    \* ---- NeuralLocator shared between threads ----
    mutex,           \* holder of the Mutex around neural_map: a thread, or 0 when free
    thread_pc,       \* per thread: its position inside analyze or update_map
    thread_args,     \* per thread: the arguments of its call in progress
    \* ---- StateChangeObserver (observer.rs) ----
    network_threshold, \* per observer instance: StateChangeObserver.network_threshold
    observer_req,    \* the ObserverRequest of the last observe call
    observer_state,  \* the ObserverState the last observe call returned
    observations,    \* every (instance, request, score, verdict) observe has returned
    \* ---- DistributedSwarm (swarm.rs) ----
    warm_pool,       \* DistributedSwarm.warm_pool: WarmPool
    swarm_ret,       \* the last kill_agents call: its count, the agents it left, its return
    \* ---- TieredRateLimiter (traffic.rs) and the command loop of main (main.rs) ----
    queues,          \* TieredRateLimiter.queues: Tier -> VecDeque<String>
    max_concurrency, \* TieredRateLimiter.max_concurrency
    active_requests, \* TieredRateLimiter.active_requests
    enq_log,         \* every (id, tier) enqueue was called with, in call order
    adm_log,         \* every (id, tier) next returned, in call order
    lim_ret,         \* the last limiter call: its name and what it returned
    main_pc,         \* "api" for a free caller of the limiter, else the position of main's loop
    main_cmd,        \* main: the SecureCommand of the iteration in progress
    \* ---- EconomyEngine (economy/mod.rs) ----
    balances,        \* EconomyEngine.balances: user_id -> UserBalance
    transactions,    \* EconomyEngine.transactions: Vec<Transaction>
    econ_ret,        \* the last call on the engine: its name, arguments and Result
    \* ---- string_similarity called on its own ----
    sim_s1,          \* string_similarity: s1
    sim_s2,          \* string_similarity: s2
    sim_result       \* the value the last string_similarity call returned

agentVars == <<world_model, pc, goal, target_state, steps, step_counter,
               total_duration, path_iter, calls, result>>
fpVars == <<fp_start, fp_target, queue, visited, loop_count, fp_result>>
healVars == <<threshold, h_pc, heal_req, h_next, best_candidate, best_score,
              best_reason, audit_trail, heal_result>>
locVars == <<neural_map, l_pc, vision_req, img, vision_result>>
lockVars == <<mutex, thread_pc, thread_args>>
obsVars == <<network_threshold, observer_req, observer_state, observations>>
engineVars == <<agentVars, fpVars, healVars, locVars, lockVars, obsVars>>
swarmVars == <<warm_pool, swarm_ret>>
trafficVars == <<queues, max_concurrency, active_requests, enq_log, adm_log,
                 lim_ret, main_pc, main_cmd>>
econVars == <<balances, transactions, econ_ret>>
simVars == <<sim_s1, sim_s2, sim_result>>
extVars == <<swarmVars, trafficVars, econVars, simVars>>
vars == <<engineVars, extVars>>

----------------------------------------------------------------------------
(* Bounds of the model *)

\* observe results the model keeps to compare
MaxObservations == 2

\* world models checked: the graph built by new() with at most this many edges removed
MaxRemoved == 2

----------------------------------------------------------------------------
(* Option<T> *)

None == [some |-> FALSE, val |-> <<>>]
Some(x) == [some |-> TRUE, val |-> x]

----------------------------------------------------------------------------
(* str: to_lowercase and contains                                          *)

\* char::to_lowercase on the characters the goals use
ToLowerChar(c) ==
    CASE c = "A" -> "a" [] c = "F" -> "f"
      [] c = "C" -> "c" [] c = "D" -> "d" [] c = "E" -> "e" [] c = "H" -> "h"
      [] c = "I" -> "i" [] c = "K" -> "k" [] c = "L" -> "l" [] c = "N" -> "n"
      [] c = "O" -> "o" [] c = "P" -> "p" [] c = "S" -> "s" [] c = "T" -> "t"
      [] c = "U" -> "u"
      [] OTHER -> c

\* str::to_lowercase
to_lowercase(s) == [i \in 1..Len(s) |-> ToLowerChar(s[i])]

\* str::contains(pattern): pattern occurs as a contiguous substring
contains(s, pat) ==
    \E off \in 0..(Len(s) - Len(pat)) :
        \A j \in 1..Len(pat) : s[off + j] = pat[j]

KwLogin    == <<"l", "o", "g", "i", "n">>
KwPurchase == <<"p", "u", "r", "c", "h", "a", "s", "e">>
KwCheckout == <<"c", "h", "e", "c", "k", "o", "u", "t">>
KwDiscount == <<"d", "i", "s", "c", "o", "u", "n", "t">>

\* request.goal values the model feeds to execute
Goals ==
    { <<"L", "o", "g", "i", "n">>,
      <<"b", "u", "y", " ", "d", "i", "s", "c", "o", "u", "n", "t">>,
      <<"c", "h", "e", "c", "k", "o", "u", "t", " ", "l", "o", "g", "i", "n">>,
      <<"b", "r", "o", "w", "s", "e">>,
      <<"P", "u", "r", "c", "h", "a", "s", "e", " ", "D", "I", "S", "C", "O", "U", "N", "T">>,
      <<"C", "H", "E", "C", "K", "O", "U", "T">>,
      <<"l", "o", "g", "i", "n", " ", "p", "u", "r", "c", "h", "a", "s", "e", " ",
        "d", "i", "s", "c", "o", "u", "n", "t">> }

----------------------------------------------------------------------------
(* World model                                                             *)

PageState == {"Home", "ProductListing", "ProductDetail", "Cart", "Checkout",
              "Login", "Dashboard"}

\* GoalOrientedAgent::new: the graph of the application
NewWorldModel ==
    [s \in PageState |->
        CASE s = "Home" ->
               << <<"click_product", "ProductDetail">>,
                  <<"click_login", "Login">>,
                  <<"search", "ProductListing">> >>
          [] s = "ProductListing" ->
               << <<"click_product", "ProductDetail">>,
                  <<"filter", "ProductListing">> >>
          [] s = "ProductDetail" ->
               << <<"add_to_cart", "Cart">>,
                  <<"back", "ProductListing">> >>
          [] s = "Cart" ->
               << <<"checkout", "Checkout">>,
                  <<"remove_item", "Cart">> >>
          [] s = "Checkout" ->
               << <<"apply_discount", "Checkout">>,
                  <<"complete_purchase", "Dashboard">> >>
          [] s = "Login" ->
               << <<"submit_credentials", "Dashboard">> >>
          [] s = "Dashboard" ->
               << <<"logout", "Home">> >>]

\* the edges of a world model, as (state, index in the state's Vec)
EdgeIds(wm) == {<<s, i>> : s \in PageState, i \in 1..3} \cap
               {e \in PageState \X (1..3) : e[2] <= Len(wm[e[1]])}

\* wm without the edges in R (the Vec of each state keeps its order)
RemoveEdges(wm, R) ==
    [s \in PageState |->
        LET F[i \in 0..Len(wm[s])] ==
                IF i = 0 THEN <<>>
                ELSE IF <<s, i>> \in R THEN F[i - 1]
                     ELSE Append(F[i - 1], wm[s][i])
        IN  F[Len(wm[s])]]

\* the world models an agent is checked with: the one new() builds and its
\* variants with up to MaxRemoved edges missing
WorldModels ==
    {RemoveEdges(NewWorldModel, R) :
        R \in {R \in SUBSET EdgeIds(NewWorldModel) : Cardinality(R) <= MaxRemoved}}

----------------------------------------------------------------------------
(* find_path (agent.rs 174-205)                                            *)

\* the loop limit of find_path
LoopLimit == 1000

\* a variant of the for loop that pushes the successors at the front of the
\* queue (a stack: depth-first order)
ExpandTransitionsFront(transitions, path, q, v) ==
    LET F[i \in 0..Len(transitions)] ==
            IF i = 0 THEN [q |-> q, v |-> v]
            ELSE LET prev == F[i - 1]
                     t == transitions[i]
                 IN  IF t[2] \notin prev.v
                     THEN [q |-> <<[state |-> t[2], path |-> Append(path, t)]>>
                                 \o prev.q,
                           v |-> prev.v \cup {t[2]}]
                     ELSE prev
    IN  F[Len(transitions)]

\* a variant of the for loop that queues the successor with the path so far,
\* without the edge that leads to it
ExpandTransitionsStalePath(transitions, path, q, v) ==
    LET F[i \in 0..Len(transitions)] ==
            IF i = 0 THEN [q |-> q, v |-> v]
            ELSE LET prev == F[i - 1]
                     t == transitions[i]
                 IN  IF t[2] \notin prev.v
                     THEN [q |-> Append(prev.q, [state |-> t[2], path |-> path]),
                           v |-> prev.v \cup {t[2]}]
                     ELSE prev
    IN  F[Len(transitions)]

\* the for loop over the transitions of `current` (agent.rs 194-201)
ExpandTransitions(transitions, path, q, v) ==
    LET F[i \in 0..Len(transitions)] ==
            IF i = 0 THEN [q |-> q, v |-> v]
            ELSE LET prev == F[i - 1]
                     t == transitions[i]
                 IN  IF t[2] \notin prev.v
                     THEN [q |-> Append(prev.q,
                                        [state |-> t[2], path |-> Append(path, t)]),
                           v |-> prev.v \cup {t[2]}]
                     ELSE prev
    IN  F[Len(transitions)]

\* a variant of the loop that reads the front of the queue without removing
\* it and keeps no count of its iterations
FindPathIterPeek(wm, target, q, v, lc) ==
    IF q = <<>>
    THEN [queue |-> q, visited |-> v, loop_count |-> lc,
          done |-> TRUE, ret |-> None]
    ELSE LET current == Head(q).state
             path == Head(q).path
         IN  IF current = target
             THEN [queue |-> q, visited |-> v, loop_count |-> lc,
                   done |-> TRUE, ret |-> Some(path)]
             ELSE LET e == ExpandTransitions(wm[current], path, q, v)
                  IN  [queue |-> e.q, visited |-> e.v, loop_count |-> lc,
                       done |-> FALSE, ret |-> None]

\* one evaluation of the while condition and, when the queue is not empty,
\* one iteration of the loop body (agent.rs 185-203); `done` says that
\* find_path has returned `ret`
FindPathIter(wm, target, q, v, lc) ==
    IF q = <<>>
    THEN [queue |-> q, visited |-> v, loop_count |-> lc,
          done |-> TRUE, ret |-> None]
    ELSE LET current == Head(q).state
             path == Head(q).path
             rest == Tail(q)
             lc1 == lc + 1
         IN  IF lc1 > LoopLimit
             THEN [queue |-> rest, visited |-> v, loop_count |-> lc1,
                   done |-> TRUE, ret |-> None]
             ELSE IF current = target
             THEN [queue |-> rest, visited |-> v, loop_count |-> lc1,
                   done |-> TRUE, ret |-> Some(path)]
             ELSE LET e == ExpandTransitions(wm[current], path, rest, v)
                  IN  [queue |-> e.q, visited |-> e.v, loop_count |-> lc1,
                       done |-> FALSE, ret |-> None]

\* find_path's statements before the loop (agent.rs 175-183)
FindPathEnter(start, target) ==
    /\ fp_start' = start
    /\ fp_target' = target
    /\ queue' = << [state |-> start, path |-> <<>>] >>
    /\ visited' = {start}
    /\ loop_count' = 0
    /\ fp_result' = None

FindPathLoop ==
    /\ pc = "find_path"
    /\ LET r == FindPathIter(world_model, fp_target, queue, visited, loop_count)
       IN  /\ queue' = r.queue
           /\ visited' = r.visited
           /\ loop_count' = r.loop_count
           /\ fp_result' = r.ret
           /\ pc' = IF r.done THEN "fp_returned" ELSE "find_path"
    /\ UNCHANGED <<fp_start, fp_target>>
    /\ UNCHANGED <<world_model, goal, target_state, steps, step_counter,
                   total_duration, path_iter, calls, result>>
    /\ UNCHANGED <<healVars, locVars, lockVars, obsVars, extVars>>

----------------------------------------------------------------------------
(* execute (agent.rs 87-172)                                               *)

\* rng.gen_range(100..500): the extremes of the range
Durations == {100, 499}

\* a variant of the goal parse that looks for purchase and checkout first
TargetOfCheckoutFirst(g) ==
    LET goal_lower == to_lowercase(g)
    IN  IF contains(goal_lower, KwPurchase) \/ contains(goal_lower, KwCheckout)
        THEN "Checkout"
        ELSE IF contains(goal_lower, KwLogin) THEN "Dashboard"
             ELSE "ProductListing"

\* the goal parse of execute (agent.rs 89-96)
TargetOf(g) ==
    LET goal_lower == to_lowercase(g)
    IN  IF contains(goal_lower, KwLogin) THEN "Dashboard"
        ELSE IF contains(goal_lower, KwPurchase) \/ contains(goal_lower, KwCheckout)
             THEN "Checkout"
             ELSE "ProductListing"

\* a variant of WantsDiscount that searches the goal as typed
WantsDiscountCaseSensitive(g) == contains(g, KwDiscount)

\* goal_lower.contains("discount") (agent.rs 126, 141)
WantsDiscount(g) == contains(to_lowercase(g), KwDiscount)

StartSessionStep(id) ==
    [step_id |-> id, action |-> "Start Session",
     observation |-> <<"Landed on Homepage">>,
     reasoning |-> <<"Initial state">>,
     duration_ms |-> 10, status |-> "completed"]

\* a variant of EdgeStep that records a slow action as failed and lets the
\* loop go on
EdgeStepMayFail(id, action, next_state, duration, discount) ==
    [step_id |-> id, action |-> action,
     observation |-> <<"Transitioned to", next_state>>,
     reasoning |-> <<"Navigating to", next_state, "via", action>>,
     duration_ms |-> duration,
     status |-> IF duration > 100 THEN "failed" ELSE "completed"]

\* the step pushed for a path edge (agent.rs 125-137)
EdgeStep(id, action, next_state, duration, discount) ==
    [step_id |-> id, action |-> action,
     observation |-> <<"Transitioned to", next_state>>,
     reasoning |-> IF next_state = "Checkout" /\ discount
                   THEN <<"Navigating to", next_state, "via", action,
                          ". Will apply discount.">>
                   ELSE <<"Navigating to", next_state, "via", action>>,
     duration_ms |-> duration, status |-> "completed"]

\* the injected discount step (agent.rs 142-149)
DiscountStep(id) ==
    [step_id |-> id, action |-> "Input 'SAVE10'",
     observation |-> <<"Discount -10% applied">>,
     reasoning |-> <<"Goal Requirement: Discount">>,
     duration_ms |-> 100, status |-> "completed"]

\* the step pushed when find_path returns None (agent.rs 155-162)
ErrorStep(id) ==
    [step_id |-> id, action |-> "Error",
     observation |-> <<"Could not find path">>,
     reasoning |-> <<"Target state unreachable">>,
     duration_ms |-> 0, status |-> "failed"]

\* the success flag of the GoalResult (agent.rs 166)
SuccessFlag(stps) == TRUE

\* execute up to the call of find_path (agent.rs 89-116)
Execute(g) ==
    /\ pc = "idle"
    /\ goal' = g
    /\ target_state' = TargetOf(g)
    /\ steps' = <<StartSessionStep(1)>>
    /\ total_duration' = 10
    /\ step_counter' = 2
    /\ path_iter' = <<>>
    /\ result' = None
    /\ calls' = <<"Uuid::new_v4", "find_path">>
    /\ FindPathEnter("Home", TargetOf(g))
    /\ pc' = "find_path"
    /\ UNCHANGED world_model
    /\ UNCHANGED <<healVars, locVars, lockVars, obsVars, extVars>>

\* `if let Some(path)` taken (agent.rs 116-121)
IfLetSome ==
    /\ pc = "fp_returned"
    /\ goal # <<>>
    /\ fp_result.some
    /\ path_iter' = fp_result.val
    /\ pc' = "for_path"
    /\ UNCHANGED <<world_model, goal, target_state, steps, step_counter,
                   total_duration, calls, result>>
    /\ UNCHANGED fpVars
    /\ UNCHANGED <<healVars, locVars, lockVars, obsVars, extVars>>

\* a variant of the condition that injects the discount after every edge
InjectDiscountAnywhere(next_state, discount) == discount

\* the condition under which the discount step is injected (agent.rs 141)
InjectDiscount(next_state, discount) == next_state = "Checkout" /\ discount

\* one iteration of `for (action, next_state) in path` (agent.rs 121-153)
ForPath ==
    /\ pc = "for_path"
    /\ path_iter # <<>>
    /\ \E duration \in Durations :
         LET action == Head(path_iter)[1]
             next_state == Head(path_iter)[2]
             discount == WantsDiscount(goal)
             inject == InjectDiscount(next_state, discount)
             edge == EdgeStep(step_counter, action, next_state, duration, discount)
         IN  /\ steps' = IF inject
                         THEN steps \o <<edge, DiscountStep(step_counter + 1)>>
                         ELSE Append(steps, edge)
             /\ step_counter' = IF inject THEN step_counter + 2 ELSE step_counter + 1
             /\ total_duration' = IF inject THEN total_duration + duration + 100
                                            ELSE total_duration + duration
    /\ path_iter' = Tail(path_iter)
    /\ calls' = Append(calls, "gen_range")
    /\ UNCHANGED <<world_model, pc, goal, target_state, result>>
    /\ UNCHANGED fpVars
    /\ UNCHANGED <<healVars, locVars, lockVars, obsVars, extVars>>

\* the else branch: find_path returned None (agent.rs 154-163)
ElseNone ==
    /\ pc = "fp_returned"
    /\ goal # <<>>
    /\ ~fp_result.some
    /\ steps' = Append(steps, ErrorStep(step_counter))
    /\ pc' = "return"
    /\ UNCHANGED <<world_model, goal, target_state, step_counter,
                   total_duration, path_iter, calls, result>>
    /\ UNCHANGED fpVars
    /\ UNCHANGED <<healVars, locVars, lockVars, obsVars, extVars>>

\* the GoalResult is built and returned (agent.rs 165-171)
Return ==
    /\ \/ pc = "for_path" /\ path_iter = <<>>
       \/ pc = "return"
    /\ result' = Some([success |-> SuccessFlag(steps), steps |-> steps,
                       total_duration_ms |-> total_duration])
    /\ calls' = Append(calls, "gen")
    /\ pc' = "idle"
    /\ UNCHANGED <<world_model, goal, target_state, steps, step_counter,
                   total_duration, path_iter>>
    /\ UNCHANGED fpVars
    /\ UNCHANGED <<healVars, locVars, lockVars, obsVars, extVars>>

----------------------------------------------------------------------------
(* f32 as fixed point                                                      *)

\* an f32 score x is the integer x * Scale; products and quotients truncate
Scale == 100

\* an f32 component x of an embedding is the integer x * EmbUnit
EmbUnit == 10

\* the integer square root of n, for 0 <= n <= Scale * Scale
ISqrt(n) == CHOOSE r \in 0..Scale : r * r <= n /\ n < (r + 1) * (r + 1)

----------------------------------------------------------------------------
(* SemanticHealer (semantic_healer.rs)                                     *)

\* the length of the embeddings (768 in the code)
EmbDim == 2

\* the threshold SemanticHealer::new sets (0.70)
NewThreshold == 70

\* the candidates heal finds on the page (semantic_healer.rs 41-48)
Candidates ==
    << <<"#", "h", "e", "a", "d", "e", "r", "-", "l", "o", "g", "o">>,
       <<".", "n", "a", "v", "i", "g", "a", "t", "i", "o", "n", "-", "l", "i", "n", "k">>,
       <<"#", "s", "u", "b", "m", "i", "t", "-", "o", "r", "d", "e", "r", "-", "b", "t", "n">>,
       <<"b", "u", "t", "t", "o", "n", "[", "t", "y", "p", "e", "=", "'", "s", "u", "b", "m", "i", "t", "'", "]">>,
       <<".", "f", "o", "o", "t", "e", "r", "-", "c", "o", "p", "y", "r", "i", "g", "h", "t">>,
       <<"#", "c", "h", "e", "c", "k", "o", "u", "t", "-", "c", "o", "n", "t", "a", "i", "n", "e", "r">> >>

\* the byte of a character of the candidates (ASCII)
Byte(c) ==
    CASE c = "#" -> 35 [] c = "'" -> 39 [] c = "-" -> 45 [] c = "." -> 46
      [] c = "=" -> 61 [] c = "[" -> 91 [] c = "]" -> 93
      [] c = "a" -> 97 [] c = "b" -> 98 [] c = "c" -> 99 [] c = "d" -> 100
      [] c = "e" -> 101 [] c = "f" -> 102 [] c = "g" -> 103 [] c = "h" -> 104
      [] c = "i" -> 105 [] c = "k" -> 107 [] c = "l" -> 108 [] c = "m" -> 109
      [] c = "n" -> 110 [] c = "o" -> 111 [] c = "p" -> 112 [] c = "r" -> 114
      [] c = "s" -> 115 [] c = "t" -> 116 [] c = "u" -> 117 [] c = "v" -> 118
      [] c = "y" -> 121

Min2(x, y) == IF x < y THEN x ELSE y
Max2(x, y) == IF x > y THEN x ELSE y

\* a variant of the row that charges a substitution as a deletion and an
\* insertion
LevRowDoubleSubstitution(prev, char_a, b, i) ==
    LET G[j \in 0..Len(b)] ==
            IF j = 0 THEN <<i + 1>>
            ELSE LET left == G[j - 1]
                     cost == IF char_a = b[j] THEN 0 ELSE 2
                 IN  Append(left,
                            Min2(Min2(prev[j + 1] + 1, left[j] + 1),
                                 prev[j] + cost))
    IN  IF Len(prev) = Len(b) + 1 THEN G[Len(b)] ELSE <<>>

\* one row of the matrix of levenshtein from the row above it
\* (semantic_healer.rs 150-156): row i + 1 for the character char_a.  The
\* row above is complete (Len(b) + 1 cells) before the row is filled.
LevRow(prev, char_a, b, i) ==
    LET G[j \in 0..Len(b)] ==
            IF j = 0 THEN <<i + 1>>
            ELSE LET left == G[j - 1]
                     cost == IF char_a = b[j] THEN 0 ELSE 1
                 IN  Append(left,
                            Min2(Min2(prev[j + 1] + 1, left[j] + 1),
                                 prev[j] + cost))
    IN  IF Len(prev) = Len(b) + 1 THEN G[Len(b)] ELSE <<>>

\* levenshtein::levenshtein (semantic_healer.rs 138-159)
levenshtein(a, b) ==
    IF Len(a) = 0 THEN Len(b)
    ELSE IF Len(b) = 0 THEN Len(a)
    ELSE LET R[i \in 0..Len(a)] ==
                 IF i = 0 THEN [j \in 1..(Len(b) + 1) |-> j - 1]
                 ELSE LevRow(R[i - 1], a[i], b, i - 1)
         IN  R[Len(a)][Len(b) + 1]

\* string_similarity (semantic_healer.rs 102-111)
string_similarity(s1, s2) ==
    LET max_len == Max2(Len(s1), Len(s2))
    IN  IF max_len = 0 THEN Scale
        ELSE Scale - ((levenshtein(s1, s2) * Scale) \div max_len)

\* the sum of the products of the components of two vectors of one length
Dot(v1, v2) ==
    LET D[i \in 0..Len(v1)] == IF i = 0 THEN 0 ELSE D[i - 1] + v1[i] * v2[i]
    IN  D[Len(v1)]

\* cosine_similarity (semantic_healer.rs 113-123): dot / (norm_a * norm_b),
\* computed as the signed root of dot^2 / (norm_a^2 * norm_b^2)
cosine_similarity(v1, v2) ==
    IF Len(v1) # Len(v2) \/ Len(v1) = 0 THEN 0
    ELSE LET dot_product == Dot(v1, v2)
             sq_a == Dot(v1, v1)
             sq_b == Dot(v2, v2)
         IN  IF sq_a = 0 \/ sq_b = 0 THEN 0
             ELSE LET mag == ISqrt((dot_product * dot_product * Scale * Scale)
                                   \div (sq_a * sq_b))
                  IN  IF dot_product < 0 THEN -mag ELSE mag

\* the seed of mock_embedding_from_string: the wrapping sum of the bytes
\* (semantic_healer.rs 127-130); the sums of the candidates stay far below 2^64
SeedOf(s) ==
    LET S[i \in 0..Len(s)] == IF i = 0 THEN 0 ELSE S[i - 1] + Byte(s[i])
    IN  S[Len(s)]

\* the n-th state of the generator seeded with `seed`.  StdRng's stream is
\* outside the model: a small linear congruential generator stands in for it,
\* keeping that the stream is a function of the seed alone
RngState(seed, n) ==
    LET X[k \in 0..n] == IF k = 0 THEN seed % 65537
                         ELSE (X[k - 1] * 75 + 74) % 65537
    IN  X[n]

\* mock_embedding_from_string (semantic_healer.rs 126-133): EmbDim values of
\* gen::<f32>(), each in [0, 1)
mock_embedding_from_string(s) ==
    [i \in 1..EmbDim |-> RngState(SeedOf(s), i) % EmbUnit]

\* the weighted score of one candidate (semantic_healer.rs 59-69)
CombinedScore(req, candidate) ==
    LET str_sim == string_similarity(req.failed_selector, candidate)
        visual_sim == cosine_similarity(req.last_known_embedding,
                                        mock_embedding_from_string(candidate))
    IN  ((str_sim * 4) + (visual_sim * 6)) \div 10

\* a variant of the verdict that also heals at the threshold
HealedVerdictAtLeast(score, thr) == score >= thr

\* the verdict of heal (semantic_healer.rs 81)
HealedVerdict(score, thr) == score > thr

\* a vector of EmbDim components, all x
Const(x) == [i \in 1..EmbDim |-> x]

\* failed_selector values the model feeds to heal
FailedSelectors ==
    { <<"#", "s", "u", "b", "m", "i", "t", "-", "b", "t", "n">>,
      Candidates[3],
      <<".", "n", "a", "v">>,
      <<>> }

\* last_known_embedding values the model feeds to heal
LastKnownEmbeddings ==
    { Const(0), Const(-EmbUnit), Const(5),
      [i \in 1..EmbDim |-> IF i = 1 THEN EmbUnit ELSE 0],
      [i \in 1..EmbDim |-> IF i = 1 THEN -EmbUnit ELSE 7] }
    \cup {mock_embedding_from_string(Candidates[k]) : k \in {2, 3}}
    \cup {<<>>, <<5>>, [i \in 1..(EmbDim + 1) |-> 5]}

HealRequests ==
    [failed_selector : FailedSelectors, last_known_embedding : LastKnownEmbeddings]

\* no heal call in progress, none made yet
HealerIdle ==
    /\ threshold = NewThreshold
    /\ h_pc = "idle"
    /\ heal_req = [failed_selector |-> <<>>, last_known_embedding |-> <<>>]
    /\ h_next = 0
    /\ best_candidate = <<>>
    /\ best_score = 0
    /\ best_reason = <<>>
    /\ audit_trail = <<>>
    /\ heal_result = None

\* heal up to the for loop (semantic_healer.rs 35-54)
Heal(req) ==
    /\ h_pc = "idle"
    /\ heal_req' = req
    /\ audit_trail' = <<"Initiating Semantic Healing", "Identified candidates">>
    /\ best_candidate' = <<>>
    /\ best_score' = 0
    /\ best_reason' = <<>>
    /\ h_next' = 1
    /\ heal_result' = None
    /\ h_pc' = "for_candidates"
    /\ UNCHANGED threshold
    /\ UNCHANGED <<agentVars, fpVars, locVars, lockVars, obsVars, extVars>>

\* one iteration of `for candidate in candidates` (semantic_healer.rs 57-79)
HealScore ==
    /\ h_pc = "for_candidates"
    /\ h_next <= Len(Candidates)
    /\ LET candidate == Candidates[h_next]
           str_sim == string_similarity(heal_req.failed_selector, candidate)
           visual_sim == cosine_similarity(heal_req.last_known_embedding,
                                           mock_embedding_from_string(candidate))
           combined_score == CombinedScore(heal_req, candidate)
       IN  IF combined_score > best_score
           THEN /\ best_score' = combined_score
                /\ best_candidate' = candidate
                /\ best_reason' = <<combined_score, str_sim, visual_sim>>
           ELSE UNCHANGED <<best_score, best_candidate, best_reason>>
    /\ h_next' = h_next + 1
    /\ UNCHANGED <<threshold, h_pc, heal_req, audit_trail, heal_result>>
    /\ UNCHANGED <<agentVars, fpVars, locVars, lockVars, obsVars, extVars>>

\* the verdict and the HealResult (semantic_healer.rs 81-99)
HealReturn ==
    /\ h_pc = "for_candidates"
    /\ h_next > Len(Candidates)
    /\ IF HealedVerdict(best_score, threshold)
       THEN /\ audit_trail' = Append(audit_trail, "Healing successful")
            /\ heal_result' = Some([healed |-> TRUE,
                                    new_selector |-> best_candidate,
                                    similarity_score |-> best_score,
                                    reason |-> best_reason,
                                    audit_trail |-> audit_trail'])
       ELSE /\ audit_trail' = Append(audit_trail, "Healing failed")
            /\ heal_result' = Some([healed |-> FALSE,
                                    new_selector |-> <<>>,
                                    similarity_score |-> best_score,
                                    reason |-> <<best_candidate, best_score, threshold>>,
                                    audit_trail |-> audit_trail'])
    /\ h_pc' = "idle"
    /\ UNCHANGED <<threshold, heal_req, h_next, best_candidate, best_score,
                   best_reason>>
    /\ UNCHANGED <<agentVars, fpVars, locVars, lockVars, obsVars, extVars>>

----------------------------------------------------------------------------
(* NeuralLocator (neural_locator.rs)                                       *)

KwBuy == <<"b", "u", "y">>
FailTest == <<"F", "A", "I", "L", "_", "T", "E", "S", "T">>

\* request.intent values the model feeds to analyze
Intents ==
    { <<"C", "h", "e", "c", "k", "o", "u", "t">>,
      <<"l", "o", "g", "i", "n">>,
      <<"d", "i", "s", "c", "o", "u", "n", "t">>,
      FailTest,
      <<"l", "o", "g", "o">> }

\* request.image_base64, by what decoding makes of it: not base64; base64 of
\* an image load_from_memory (or its PNG fallback) reads; base64 of bytes
\* that are no image
Images ==
    { [base64 |-> FALSE, kind |-> "none", width |-> 0, height |-> 0],
      [base64 |-> TRUE, kind |-> "image", width |-> 800, height |-> 600],
      [base64 |-> TRUE, kind |-> "garbage", width |-> 0, height |-> 0] }

VisionRequests == [image_base64 : Images, intent : Intents]

\* rng.gen_range(0.85..0.99), in units of 1/Scale
Confidences == {85, 90, 98}

\* rng.gen_range(0.5..0.8), in units of 1/Scale
GenericConfidences == {50, 79}

\* the factors drawn for the two noise candidates (neural_locator.rs 275-280):
\* gen_range(0.9..1.1) for x and for y, gen_range(0.6..0.9) for the confidence
NoiseFactors ==
    { << [fx |-> 90, fy |-> 109, fc |-> 60], [fx |-> 109, fy |-> 90, fc |-> 89] >>,
      << [fx |-> 109, fy |-> 109, fc |-> 89], [fx |-> 90, fy |-> 90, fc |-> 60] >> }

\* rng.gen_range(0..900) and rng.gen_range(0..700) for a generic element
GenericPositions == {<<0, 0>>, <<899, 699>>}

\* the embeddings the generator may produce (neural_locator.rs 286)
RandomEmbeddings == {[i \in 1..EmbDim |-> 1], [i \in 1..EmbDim |-> 9]}

\* SystemTime::now() in seconds
Times == {1, 2}

BoundingBox(x, y, w, h, label, confidence) ==
    [x |-> x, y |-> y, width |-> w, height |-> h, label |-> label,
     confidence |-> confidence]

\* the image analyze works on (neural_locator.rs 197-211): the decoded image,
\* or a blank 1024 x 768 canvas when the bytes are no image
LoadImage(image) ==
    IF image.kind = "image"
    THEN <<image.width, image.height>>
    ELSE <<1024, 768>>

\* whether analyze takes the GENERAL_INTERACTION branch, the only one that
\* draws a position and a confidence of its own (neural_locator.rs 256-265)
IsGeneric(intent) ==
    LET intent_lower == to_lowercase(intent)
    IN  /\ ~contains(intent_lower, KwBuy)
        /\ ~contains(intent_lower, KwCheckout)
        /\ ~contains(intent_lower, KwLogin)
        /\ ~contains(intent_lower, KwDiscount)
        /\ intent # FailTest

\* primary_box (neural_locator.rs 227-266)
PrimaryBox(intent, im, confidence, gx, gy, gconf) ==
    LET intent_lower == to_lowercase(intent)
    IN  IF contains(intent_lower, KwBuy) \/ contains(intent_lower, KwCheckout)
        THEN Some(BoundingBox(im[1] - 200, im[2] - 100, 150, 50,
                              "Primary Action", confidence))
        ELSE IF contains(intent_lower, KwLogin)
        THEN Some(BoundingBox(im[1] - 150, 50, 80, 30, "Auth Trigger", confidence))
        ELSE IF contains(intent_lower, KwDiscount)
        THEN Some(BoundingBox(400, 500, 200, 40, "Input Field", confidence))
        ELSE IF intent = FailTest
        THEN None
        ELSE Some(BoundingBox(gx, gy, 100, 40, "Generic Element", gconf))

\* a variant of the noise candidate whose confidence is scaled up, not down
NoiseCandidateBoosted(primary, f) ==
    BoundingBox((primary.x * f.fx) \div 100, (primary.y * f.fy) \div 100,
                primary.width, primary.height, "Ambiguous Match",
                (primary.confidence * (200 - f.fc)) \div 100)

\* one noise candidate next to the primary box (neural_locator.rs 274-281)
NoiseCandidate(primary, f) ==
    BoundingBox((primary.x * f.fx) \div 100, (primary.y * f.fy) \div 100,
                primary.width, primary.height, "Ambiguous Match",
                (primary.confidence * f.fc) \div 100)

\* candidates (neural_locator.rs 269-283)
CandidatesOf(primary_box, f1, f2) ==
    IF primary_box.some
    THEN <<primary_box.val, NoiseCandidate(primary_box.val, f1),
           NoiseCandidate(primary_box.val, f2)>>
    ELSE <<>>

\* the VisionResult of a call whose image is no base64 (neural_locator.rs 183-192)
DecodeFailure ==
    [found |-> FALSE, location |-> None, candidates |-> <<>>, confidence |-> 0,
     semantic_embedding |-> <<>>,
     reasoning |-> <<"Failed to decode Base64 image data.">>]

\* the reasoning of a result of the ViT simulation (neural_locator.rs 301)
VitReasoning(intent, confidence) == <<"ViT Layer identified", intent, confidence>>

\* NeuralMap: memory.insert(intent, entry)
MapInsert(memory, intent, entry) ==
    [k \in DOMAIN memory \cup {intent} |-> IF k = intent THEN entry ELSE memory[k]]

\* no analyze call in progress, none made yet, an empty map
\* (NeuralLocator::new)
LocatorIdle ==
    /\ neural_map = <<>>
    /\ l_pc = "idle"
    /\ vision_req = [image_base64 |-> [base64 |-> FALSE, kind |-> "none",
                                      width |-> 0, height |-> 0],
                     intent |-> <<>>]
    /\ img = <<0, 0>>
    /\ vision_result = None

\* analyze up to the loaded image (neural_locator.rs 175-211)
AnalyzeDecode(req) ==
    /\ l_pc = "idle"
    /\ vision_req' = req
    /\ IF ~req.image_base64.base64
       THEN /\ vision_result' = Some(DecodeFailure)
            /\ l_pc' = "idle"
            /\ UNCHANGED img
       ELSE /\ img' = LoadImage(req.image_base64)
            /\ l_pc' = "vit"
            /\ UNCHANGED vision_result
    /\ UNCHANGED neural_map
    /\ UNCHANGED <<agentVars, fpVars, healVars, lockVars, obsVars, extVars>>

\* the ViT simulation and the returned VisionResult (neural_locator.rs 213-303)
AnalyzeVit ==
    /\ l_pc = "vit"
    /\ \E confidence \in Confidences, f \in NoiseFactors,
          embedding \in RandomEmbeddings,
          g \in IF IsGeneric(vision_req.intent)
                THEN GenericPositions ELSE {<<0, 0>>},
          gconf \in IF IsGeneric(vision_req.intent)
                    THEN GenericConfidences ELSE {0} :
         LET primary_box == PrimaryBox(vision_req.intent, img, confidence,
                                       g[1], g[2], gconf)
         IN  vision_result' =
                 Some([found |-> primary_box.some,
                       location |-> primary_box,
                       candidates |-> CandidatesOf(primary_box, f[1], f[2]),
                       confidence |-> confidence,
                       semantic_embedding |-> embedding,
                       reasoning |-> VitReasoning(vision_req.intent, confidence)])
    /\ l_pc' = "idle"
    /\ UNCHANGED <<neural_map, vision_req, img>>
    /\ UNCHANGED <<agentVars, fpVars, healVars, lockVars, obsVars, extVars>>

\* the locations and embeddings the model feeds to update_map
MapLocations ==
    { BoundingBox(650, 50, 80, 30, "Auth Trigger", 98),
      BoundingBox(600, 500, 150, 50, "Primary Action", 85) }

\* NeuralLocator::update_map (neural_locator.rs 358-365)
UpdateMap(intent, location, embedding) ==
    /\ \E now \in Times :
         neural_map' = MapInsert(neural_map, intent,
                                 [location |-> location, embedding |-> embedding,
                                  last_seen |-> now])
    /\ UNCHANGED <<l_pc, vision_req, img, vision_result>>
    /\ UNCHANGED <<agentVars, fpVars, healVars, lockVars, obsVars, extVars>>

\* NeuralMap::update (neural_locator.rs 73-79), on the map of the locator
NeuralMapUpdate(intent, embedding, location) ==
    /\ \E now \in Times :
         neural_map' = MapInsert(neural_map, intent,
                                 [location |-> location, embedding |-> embedding,
                                  last_seen |-> now])
    /\ UNCHANGED <<l_pc, vision_req, img, vision_result>>
    /\ UNCHANGED <<agentVars, fpVars, healVars, lockVars, obsVars, extVars>>

----------------------------------------------------------------------------
(* StateChangeObserver (observer.rs)                                       *)

\* the StateChangeObserver instances of the model
Observers == {1, 2}

\* the cut of the verdict: amniotic_score > 0.85 (observer.rs 58)
StableCut == 85

\* ObserverRequest values the model feeds to observe; layout_shifts is a
\* cumulative layout shift (an f32 >= 0) in units of 1/Scale, and observe
\* does not read url
ObserverRequests ==
    [pending_network_requests : {0, 1, 6},
     dom_mutation_rate : {0, 11},
     layout_shifts : {0, 5, 10, 30}]

\* observer.rs 38-42
network_score(request) ==
    IF request.pending_network_requests = 0
    THEN Scale
    ELSE Max2(Scale - (request.pending_network_requests * 20), 0)

\* observer.rs 46
dom_score(request) == Max2(Scale - (request.dom_mutation_rate * 10), 0)

\* observer.rs 50
cls_score(request) == Max2(Scale - (request.layout_shifts * 5), 0)

\* a variant of the score that drifts with the number of results returned so far
amniotic_score_drifting(request) ==
    ((network_score(request) * 50) + (dom_score(request) * 30)
        + (cls_score(request) * 20)) \div Scale - Cardinality(observations)

\* a variant of the score whose weights do not add up to one
amniotic_score_underweighted(request) ==
    ((network_score(request) * 50) + (dom_score(request) * 30)
        + (cls_score(request) * 10)) \div Scale

\* observer.rs 54: network 50%, DOM 30%, layout 20%
amniotic_score(request) ==
    ((network_score(request) * 50) + (dom_score(request) * 30)
        + (cls_score(request) * 20)) \div Scale

\* observer.rs 57
network_idle(self, request) ==
    request.pending_network_requests <= network_threshold[self]

\* observer.rs 58
StableVerdict(score) == score > StableCut

\* the ObserverState observe returns (observer.rs 60-66)
ObserverStateOf(self, request) ==
    [stable |-> StableVerdict(amniotic_score(request)),
     network_idle |-> network_idle(self, request),
     layout_shifts_score |-> cls_score(request),
     dom_stability_score |-> dom_score(request),
     amniotic_state_score |-> amniotic_score(request)]

\* no observe call made yet (StateChangeObserver::new for every instance)
ObserverIdle ==
    /\ network_threshold = [o \in Observers |-> 0]
    /\ observer_req = [pending_network_requests |-> 0, dom_mutation_rate |-> 0,
                       layout_shifts |-> 0]
    /\ observer_state = None
    /\ observations = {}

\* StateChangeObserver::observe (observer.rs 32-67)
Observe(self, request) ==
    /\ Cardinality(observations) < MaxObservations
    /\ observer_req' = request
    /\ observer_state' = Some(ObserverStateOf(self, request))
    /\ observations' = observations \cup
           {[observer |-> self, request |-> request,
             score |-> observer_state'.val.amniotic_state_score,
             stable |-> observer_state'.val.stable]}
    /\ UNCHANGED network_threshold
    /\ UNCHANGED <<agentVars, fpVars, healVars, locVars, lockVars, extVars>>

----------------------------------------------------------------------------
(* NeuralLocator shared between threads (Arc<Mutex<NeuralMap>>)            *)

\* the threads that call into one NeuralLocator
Threads == {1, 2}

\* no thread inside the locator, the mutex free
LockIdle ==
    /\ mutex = 0
    /\ thread_pc = [t \in Threads |-> "idle"]
    /\ thread_args = [t \in Threads |-> <<>>]

\* the requests the threads send to analyze
SharedVisionRequests ==
    {req \in VisionRequests :
        /\ req.image_base64.kind \in {"none", "image"}
        /\ req.intent \in {<<"C", "h", "e", "c", "k", "o", "u", "t">>, FailTest}}

\* a variant of analyze that takes the guard of neural_map on entry and
\* keeps it while it runs
AnalyzeGuardHeld(t, holder) == t

\* the holder of the mutex once thread t has entered analyze: analyze takes
\* no guard (neural_locator.rs 174-304 never calls neural_map.lock())
AnalyzeGuard(t, holder) == holder

\* analyze by thread t up to the loaded image (neural_locator.rs 175-211)
AnalyzeEnter(t, req) ==
    /\ thread_pc[t] = "idle"
    /\ IF ~req.image_base64.base64
       THEN /\ vision_req' = req
            /\ vision_result' = Some(DecodeFailure)
            /\ UNCHANGED <<mutex, thread_pc, thread_args>>
       ELSE /\ thread_pc' = [thread_pc EXCEPT ![t] = "perception"]
            /\ thread_args' = [thread_args EXCEPT
                                  ![t] = [request |-> req,
                                          img |-> LoadImage(req.image_base64)]]
            /\ mutex' = AnalyzeGuard(t, mutex)
            /\ UNCHANGED <<vision_req, vision_result>>
    /\ UNCHANGED <<neural_map, l_pc, img>>
    /\ UNCHANGED <<agentVars, fpVars, healVars, obsVars, extVars>>

\* the ViT simulation of thread t and its VisionResult (neural_locator.rs 213-303)
AnalyzeExit(t) ==
    /\ thread_pc[t] = "perception"
    /\ LET req == thread_args[t].request
       IN  /\ \E confidence \in Confidences, f \in NoiseFactors,
                 embedding \in RandomEmbeddings,
                 g \in IF IsGeneric(req.intent)
                       THEN GenericPositions ELSE {<<0, 0>>},
                 gconf \in IF IsGeneric(req.intent)
                           THEN GenericConfidences ELSE {0} :
                LET primary_box == PrimaryBox(req.intent, thread_args[t].img,
                                              confidence, g[1], g[2], gconf)
                IN  vision_result' =
                        Some([found |-> primary_box.some,
                              location |-> primary_box,
                              candidates |-> CandidatesOf(primary_box, f[1], f[2]),
                              confidence |-> confidence,
                              semantic_embedding |-> embedding,
                              reasoning |-> VitReasoning(req.intent, confidence)])
           /\ vision_req' = req
    /\ thread_pc' = [thread_pc EXCEPT ![t] = "idle"]
    /\ thread_args' = [thread_args EXCEPT ![t] = <<>>]
    /\ UNCHANGED <<mutex, neural_map, l_pc, img>>
    /\ UNCHANGED <<agentVars, fpVars, healVars, obsVars, extVars>>

\* update_map called by thread t (neural_locator.rs 358)
UpdateMapEnter(t, intent, location, embedding) ==
    /\ thread_pc[t] = "idle"
    /\ thread_pc' = [thread_pc EXCEPT ![t] = "lock"]
    /\ thread_args' = [thread_args EXCEPT
                          ![t] = [intent |-> intent, location |-> location,
                                  embedding |-> embedding]]
    /\ UNCHANGED mutex
    /\ UNCHANGED <<agentVars, fpVars, healVars, locVars, obsVars, extVars>>

\* self.neural_map.lock().unwrap() (neural_locator.rs 359): waits for the
\* mutex to be free
UpdateMapLock(t) ==
    /\ thread_pc[t] = "lock"
    /\ mutex = 0
    /\ mutex' = t
    /\ thread_pc' = [thread_pc EXCEPT ![t] = "insert"]
    /\ UNCHANGED thread_args
    /\ UNCHANGED <<agentVars, fpVars, healVars, locVars, obsVars, extVars>>

\* map_lock.memory.insert(..) and the drop of the guard at the end of
\* update_map (neural_locator.rs 360-365)
UpdateMapInsert(t) ==
    /\ thread_pc[t] = "insert"
    /\ \E now \in Times :
         neural_map' = MapInsert(neural_map, thread_args[t].intent,
                                 [location |-> thread_args[t].location,
                                  embedding |-> thread_args[t].embedding,
                                  last_seen |-> now])
    /\ mutex' = 0
    /\ thread_pc' = [thread_pc EXCEPT ![t] = "idle"]
    /\ thread_args' = [thread_args EXCEPT ![t] = <<>>]
    /\ UNCHANGED <<l_pc, vision_req, img, vision_result>>
    /\ UNCHANGED <<agentVars, fpVars, healVars, obsVars, extVars>>

----------------------------------------------------------------------------
(* string_similarity called on its own (semantic_healer.rs)                *)

\* the longest string string_similarity is called with
MaxStrLen == 3

\* the characters of the strings string_similarity is called with
Alphabet == {"a", "b"}

\* the strings string_similarity is called with
Strings == UNION {[1..n -> Alphabet] : n \in 0..MaxStrLen}

SimIdle ==
    /\ sim_s1 = <<>>
    /\ sim_s2 = <<>>
    /\ sim_result = None

\* a call of string_similarity(s1, s2) (semantic_healer.rs 102-111)
StringSimilarity(s1, s2) ==
    /\ sim_s1' = s1
    /\ sim_s2' = s2
    /\ sim_result' = Some(string_similarity(s1, s2))
    /\ UNCHANGED <<engineVars, swarmVars, trafficVars, econVars>>

----------------------------------------------------------------------------
(* DistributedSwarm (swarm.rs)                                             *)

\* the agents pre_warm and check_replenish fill the pool with
PoolSize == 50

\* the threshold new() gives the pool
PoolThreshold == 20

\* the counts kill_agents is called with (a u32 in the code; the last is the
\* largest value the checker's integers hold)
KillCounts == {0, 1, 10, 29, 30, 31, 50, 51, 2147483647}

\* the pool as DistributedSwarm::new builds it (swarm.rs 30-38)
WarmPoolNew ==
    [available_agents |-> 0, status |-> "COLD", threshold |-> PoolThreshold]

\* pre_warm (swarm.rs 42-46)
pre_warm(pool) ==
    [pool EXCEPT !.available_agents = PoolSize, !.status = "READY"]

\* a variant of the test of check_replenish that takes the threshold itself
\* for a deficit
NeedsReplenishAtThreshold(pool) == pool.available_agents <= pool.threshold

\* the test of check_replenish (swarm.rs 60)
NeedsReplenish(pool) == pool.available_agents < pool.threshold

\* check_replenish (swarm.rs 59-68): the pool it leaves and the value it returns
check_replenish(pool) ==
    IF NeedsReplenish(pool)
    THEN [pool |-> [pool EXCEPT !.available_agents = PoolSize,
                                !.status = "REPLENISHED"],
          ret |-> PoolSize - pool.available_agents]
    ELSE [pool |-> pool, ret |-> 0]

\* kill_agents (swarm.rs 49-56): the pool it leaves and the value it returns
kill_agents(pool, count) ==
    check_replenish(
        IF count >= pool.available_agents
        THEN [pool EXCEPT !.available_agents = 0]
        ELSE [pool EXCEPT !.available_agents = pool.available_agents - count])

\* the record of a kill_agents call on the pool before it
KillRecord(pool, count) ==
    Some([op |-> "kill_agents", count |-> count,
          before |-> pool.available_agents,
          ret |-> kill_agents(pool, count).ret])

SwarmIdle ==
    /\ warm_pool = WarmPoolNew
    /\ swarm_ret = None

\* a call of pre_warm
PreWarm ==
    /\ warm_pool' = pre_warm(warm_pool)
    /\ swarm_ret' = None
    /\ UNCHANGED <<engineVars, trafficVars, econVars, simVars>>

\* a call of kill_agents(count)
KillAgents(count) ==
    /\ warm_pool' = kill_agents(warm_pool, count).pool
    /\ swarm_ret' = KillRecord(warm_pool, count)
    /\ UNCHANGED <<engineVars, trafficVars, econVars, simVars>>

----------------------------------------------------------------------------
(* TieredRateLimiter (traffic.rs) and the command loop of main (main.rs)   *)

\* enqueue calls the model follows
MaxEnqueue == 3

\* the limit main gives its limiter
MainMaxConcurrency == 100

\* the limits a free caller gives its limiter
MaxConcurrencies == {0, 1, 2}

TierSet == {"Sovereign", "Enterprise", "Starter"}

\* the request ids a free caller enqueues
RequestIds == {"r1", "r2"}

\* a variant of the order that serves the Starter queue first
PopOrderStarterFirst == <<"Starter", "Enterprise", "Sovereign">>

\* the order in which next tries the queues (traffic.rs 44-69)
PopOrder == <<"Sovereign", "Enterprise", "Starter">>

\* the queues as TieredRateLimiter::new builds them (traffic.rs 18-29)
NewQueues == [t \in TierSet |-> <<>>]

\* enqueue (traffic.rs 31-35)
enqueue(q, request_id, tier) == [q EXCEPT ![tier] = Append(@, request_id)]

\* a variant of the saturation test that lets one request more in
SaturatedAbove(active, max) == active > max

\* the saturation test of next (traffic.rs 40)
Saturated(active, max) == active >= max

\* next (traffic.rs 39-72): the queues and the counter it leaves, the tier
\* it popped from and the Option<String> it returns
next(q, active, max) ==
    LET nonempty == {i \in 1..Len(PopOrder) : q[PopOrder[i]] # <<>>}
    IN  IF Saturated(active, max) \/ nonempty = {}
        THEN [queues |-> q, active |-> active, tier |-> "none", ret |-> None]
        ELSE LET i == CHOOSE k \in nonempty : \A m \in nonempty : k <= m
                 t == PopOrder[i]
             IN  [queues |-> [q EXCEPT ![t] = Tail(@)],
                  active |-> active + 1,
                  tier |-> t,
                  ret |-> Some(Head(q[t]))]

\* release (traffic.rs 74-78)
release(active) == IF active > 0 THEN active - 1 ELSE active

\* the commands main reads: a line that parses or not, its token, its user,
\* its command and the kill_count of a Chaos command
Commands ==
    [parsed : BOOLEAN, auth_token : {"valid_token", "stale_token"},
     user_id : {"admin", "enterprise", "guest"},
     command : {"Ping", "Chaos"}, kill_count : {0, 31}]

\* the tier main gives a user (main.rs 106-115)
TierOf(user_id) ==
    IF user_id = "admin" THEN "Sovereign"
    ELSE IF user_id = "enterprise" THEN "Enterprise"
    ELSE "Starter"

NoCommand ==
    [parsed |-> FALSE, auth_token |-> "stale_token", user_id |-> "guest",
     command |-> "Ping", kill_count |-> 0]

TrafficIdle ==
    /\ queues = NewQueues
    /\ max_concurrency = 1
    /\ active_requests = 0
    /\ enq_log = <<>>
    /\ adm_log = <<>>
    /\ lim_ret = None
    /\ main_pc = "api"
    /\ main_cmd = NoCommand

\* a free caller calls enqueue(request_id, tier)
EnqueueCall(request_id, tier) ==
    /\ main_pc = "api"
    /\ Len(enq_log) < MaxEnqueue
    /\ queues' = enqueue(queues, request_id, tier)
    /\ enq_log' = Append(enq_log, <<request_id, tier>>)
    /\ lim_ret' = Some([op |-> "enqueue", ret |-> None,
                        queues_before |-> queues,
                        active_before |-> active_requests])
    /\ UNCHANGED <<max_concurrency, active_requests, adm_log, main_pc, main_cmd>>
    /\ UNCHANGED <<engineVars, swarmVars, econVars, simVars>>

\* a free caller calls next()
NextCall ==
    /\ main_pc = "api"
    /\ LET r == next(queues, active_requests, max_concurrency)
       IN  /\ queues' = r.queues
           /\ active_requests' = r.active
           /\ adm_log' = IF r.ret.some
                         THEN Append(adm_log, <<r.ret.val, r.tier>>)
                         ELSE adm_log
           /\ lim_ret' = Some([op |-> "next", ret |-> r.ret,
                               queues_before |-> queues,
                               active_before |-> active_requests])
    /\ UNCHANGED <<max_concurrency, enq_log, main_pc, main_cmd>>
    /\ UNCHANGED <<engineVars, swarmVars, econVars, simVars>>

\* a free caller calls release()
ReleaseCall ==
    /\ main_pc = "api"
    /\ active_requests' = release(active_requests)
    /\ lim_ret' = Some([op |-> "release", ret |-> None,
                        queues_before |-> queues,
                        active_before |-> active_requests])
    /\ UNCHANGED <<queues, max_concurrency, enq_log, adm_log, main_pc, main_cmd>>
    /\ UNCHANGED <<engineVars, swarmVars, econVars, simVars>>

\* main reads a line and takes it up to the dispatch (main.rs 91-131): an
\* empty or unparsable line and a wrong token end the iteration; otherwise
\* the request is enqueued and next() is called, and a None ends the
\* iteration.
MainRead(cmd) ==
    /\ main_pc = "read"
    /\ Len(enq_log) < MaxEnqueue
    /\ main_cmd' = cmd
    /\ IF ~cmd.parsed \/ cmd.auth_token # "valid_token"
       THEN UNCHANGED <<queues, active_requests, enq_log, adm_log, lim_ret, main_pc>>
       ELSE LET tier == TierOf(cmd.user_id)
                q == enqueue(queues, cmd.user_id, tier)
                r == next(q, active_requests, max_concurrency)
            IN  /\ queues' = r.queues
                /\ active_requests' = r.active
                /\ enq_log' = Append(enq_log, <<cmd.user_id, tier>>)
                /\ adm_log' = IF r.ret.some
                              THEN Append(adm_log, <<r.ret.val, r.tier>>)
                              ELSE adm_log
                /\ lim_ret' = Some([op |-> "next", ret |-> r.ret,
                                    queues_before |-> q,
                                    active_before |-> active_requests])
                /\ main_pc' = IF r.ret.some THEN "dispatch" ELSE "read"
    /\ UNCHANGED max_concurrency
    /\ UNCHANGED <<engineVars, swarmVars, econVars, simVars>>

\* main executes the command and releases the slot (main.rs 134-192).  Of
\* the commands only Chaos changes state the model keeps: it calls
\* kill_agents when the user holds the Admin role (main.rs 179-185).
MainDispatch ==
    /\ main_pc = "dispatch"
    /\ IF main_cmd.command = "Chaos" /\ main_cmd.user_id = "admin"
       THEN /\ warm_pool' = kill_agents(warm_pool, main_cmd.kill_count).pool
            /\ swarm_ret' = KillRecord(warm_pool, main_cmd.kill_count)
       ELSE UNCHANGED swarmVars
    /\ active_requests' = release(active_requests)
    /\ lim_ret' = Some([op |-> "release", ret |-> None,
                        queues_before |-> queues,
                        active_before |-> active_requests])
    /\ main_pc' = "read"
    /\ UNCHANGED <<queues, max_concurrency, enq_log, adm_log, main_cmd>>
    /\ UNCHANGED <<engineVars, econVars, simVars>>

----------------------------------------------------------------------------
(* EconomyEngine (economy/mod.rs)                                          *)
(* Every method takes the lock on balances first and holds it until it     *)
(* returns, so each call is one step.  Credits are whole numbers of        *)
(* credits.  The id and the timestamp of a Transaction come from the       *)
(* clock and are left out.                                                 *)

\* transactions the model follows
MaxTransactions == 3

UserIds == {"alice"}

\* the amounts mint_credits is called with
Amounts == {10, 30, -10}

\* the (module, cost) pairs unlock_module is called with
ModuleCosts == {<<"module_a", 5>>, <<"module_b", 20>>}

\* the batches unlock_modules is called with
Batches ==
    { <<>>,
      << <<"module_a", 5>> >>,
      << <<"module_a", 5>>, <<"module_b", 20>> >>,
      << <<"module_a", 20>>, <<"module_b", 20>> >>,
      << <<"module_a", 5>>, <<"module_a", 5>> >> }

Ok(x) == [ok |-> TRUE, val |-> x]
Err(e) == [ok |-> FALSE, val |-> e]

\* HashMap::new()
NoBalances == [u \in {} |-> 0]

\* the map with the balance of one user replaced or added
WithBalance(bals, user_id, balance) ==
    [u \in DOMAIN bals \cup {user_id} |->
        IF u = user_id THEN balance ELSE bals[u]]

\* push unless contained (mod.rs 70-72, 104-106)
PushUnique(modules, module_name) ==
    IF \E i \in 1..Len(modules) : modules[i] = module_name
    THEN modules
    ELSE Append(modules, module_name)

\* mint_credits (mod.rs 34-57)
mint_credits(bals, txs, user_id, amount) ==
    LET balance == IF user_id \in DOMAIN bals THEN bals[user_id]
                   ELSE [user_id |-> user_id, credits |-> 0,
                         unlocked_modules |-> <<>>]
        minted == [balance EXCEPT !.credits = balance.credits + amount]
    IN  [balances |-> WithBalance(bals, user_id, minted),
         transactions |-> Append(txs, [user_id |-> user_id, amount |-> amount,
                                       transaction_type |-> <<"mint">>]),
         result |-> Ok(minted)]

\* unlock_module (mod.rs 59-86)
unlock_module(bals, txs, user_id, module_name, cost) ==
    IF user_id \notin DOMAIN bals
    THEN [balances |-> bals, transactions |-> txs, result |-> Err("User not found")]
    ELSE IF bals[user_id].credits < cost
    THEN [balances |-> bals, transactions |-> txs,
          result |-> Err("Insufficient credits")]
    ELSE LET balance ==
                 [bals[user_id] EXCEPT
                     !.credits = @ - cost,
                     !.unlocked_modules = PushUnique(@, module_name)]
         IN  [balances |-> WithBalance(bals, user_id, balance),
              transactions |->
                  Append(txs, [user_id |-> user_id, amount |-> 0 - cost,
                               transaction_type |-> <<"unlock_", module_name>>]),
              result |-> Ok(balance)]

\* modules.iter().map(|(_, cost)| cost).sum() (mod.rs 93)
TotalCost(modules) ==
    LET S[i \in 0..Len(modules)] ==
            IF i = 0 THEN 0 ELSE S[i - 1] + modules[i][2]
    IN  S[Len(modules)]

\* the for loop of unlock_modules (mod.rs 103-107)
PushAll(unlocked, modules) ==
    LET P[i \in 0..Len(modules)] ==
            IF i = 0 THEN unlocked ELSE PushUnique(P[i - 1], modules[i][1])
    IN  P[Len(modules)]

\* a variant of unlock_modules that unlocks the modules one call of
\* unlock_module after the other and stops at the first error
unlock_modules_one_by_one(bals, txs, user_id, modules) ==
    LET U[i \in 0..Len(modules)] ==
            IF i = 0
            THEN [balances |-> bals, transactions |-> txs,
                  result |-> IF user_id \in DOMAIN bals THEN Ok(bals[user_id])
                             ELSE Err("User not found")]
            ELSE IF ~U[i - 1].result.ok THEN U[i - 1]
                 ELSE unlock_module(U[i - 1].balances, U[i - 1].transactions,
                                    user_id, modules[i][1], modules[i][2])
    IN  U[Len(modules)]

\* unlock_modules (mod.rs 88-119)
unlock_modules(bals, txs, user_id, modules) ==
    IF user_id \notin DOMAIN bals
    THEN [balances |-> bals, transactions |-> txs, result |-> Err("User not found")]
    ELSE LET total_cost == TotalCost(modules)
         IN  IF bals[user_id].credits < total_cost
             THEN [balances |-> bals, transactions |-> txs,
                   result |-> Err("Insufficient credits")]
             ELSE LET balance ==
                          [bals[user_id] EXCEPT
                              !.credits = @ - total_cost,
                              !.unlocked_modules = PushAll(@, modules)]
                  IN  [balances |-> WithBalance(bals, user_id, balance),
                       transactions |->
                           Append(txs, [user_id |-> user_id,
                                        amount |-> 0 - total_cost,
                                        transaction_type |-> <<"unlock_", "batch">>]),
                       result |-> Ok(balance)]

EconIdle ==
    /\ balances = NoBalances
    /\ transactions = <<>>
    /\ econ_ret = None

\* the state a call leaves and the record of the call
EconomyCall(op, user_id, args, r) ==
    /\ Len(transactions) < MaxTransactions
    /\ balances' = r.balances
    /\ transactions' = r.transactions
    /\ econ_ret' = Some([op |-> op, user_id |-> user_id, args |-> args,
                         balances_before |-> balances,
                         transactions_before |-> transactions,
                         result |-> r.result])
    /\ UNCHANGED <<engineVars, swarmVars, trafficVars, simVars>>

\* a call of mint_credits(user_id, amount)
MintCredits(user_id, amount) ==
    EconomyCall("mint_credits", user_id, <<amount>>,
                mint_credits(balances, transactions, user_id, amount))

\* a call of unlock_module(user_id, module_name, cost)
UnlockModule(user_id, module_name, cost) ==
    EconomyCall("unlock_module", user_id, <<module_name, cost>>,
                unlock_module(balances, transactions, user_id, module_name, cost))

\* a call of unlock_modules(user_id, modules)
UnlockModules(user_id, modules) ==
    EconomyCall("unlock_modules", user_id, modules,
                unlock_modules(balances, transactions, user_id, modules))

\* the swarm, the limiter, the economy engine and string_similarity at rest
ExtIdle ==
    /\ SwarmIdle
    /\ TrafficIdle
    /\ EconIdle
    /\ SimIdle

----------------------------------------------------------------------------
(* Specifications                                                          *)

\* An agent with one of the world models, serving execute calls one at a time.
InitAgent ==
    /\ world_model \in WorldModels
    /\ pc = "idle"
    /\ goal = <<>>
    /\ target_state = "Home"
    /\ steps = <<>>
    /\ step_counter = 0
    /\ total_duration = 0
    /\ path_iter = <<>>
    /\ calls = <<>>
    /\ result = None
    /\ fp_start = "Home"
    /\ fp_target = "Home"
    /\ queue = <<>>
    /\ visited = {}
    /\ loop_count = 0
    /\ fp_result = None
    /\ HealerIdle
    /\ LocatorIdle
    /\ LockIdle
    /\ ObserverIdle
    /\ ExtIdle

NextAgent ==
    \/ \E g \in Goals : Execute(g)
    \/ FindPathLoop
    \/ IfLetSome
    \/ ForPath
    \/ ElseNone
    \/ Return

SpecAgent == InitAgent /\ [][NextAgent]_vars

\* find_path as a function of (world model, start, target): one call, entered
\* with every start and target.
InitFindPath ==
    /\ world_model \in WorldModels
    /\ pc = "find_path"
    /\ goal = <<>>
    /\ target_state = "Home"
    /\ steps = <<>>
    /\ step_counter = 0
    /\ total_duration = 0
    /\ path_iter = <<>>
    /\ calls = <<>>
    /\ result = None
    /\ fp_start \in PageState
    /\ fp_target \in PageState
    /\ queue = << [state |-> fp_start, path |-> <<>>] >>
    /\ visited = {fp_start}
    /\ loop_count = 0
    /\ fp_result = None
    /\ HealerIdle
    /\ LocatorIdle
    /\ LockIdle
    /\ ObserverIdle
    /\ ExtIdle

NextFindPath == FindPathLoop

SpecFindPath == InitFindPath /\ [][NextFindPath]_vars

\* the thread running find_path is never suspended forever
FairSpecFindPath == SpecFindPath /\ WF_vars(FindPathLoop)

\* the agent at rest, no call made
AgentIdle ==
    /\ world_model = NewWorldModel
    /\ pc = "idle"
    /\ goal = <<>>
    /\ target_state = "Home"
    /\ steps = <<>>
    /\ step_counter = 0
    /\ total_duration = 0
    /\ path_iter = <<>>
    /\ calls = <<>>
    /\ result = None
    /\ fp_start = "Home"
    /\ fp_target = "Home"
    /\ queue = <<>>
    /\ visited = {}
    /\ loop_count = 0
    /\ fp_result = None

\* A healer serving heal calls one at a time.
InitHealer ==
    /\ AgentIdle
    /\ HealerIdle
    /\ LocatorIdle
    /\ LockIdle
    /\ ObserverIdle
    /\ ExtIdle

NextHealer ==
    \/ \E req \in HealRequests : Heal(req)
    \/ HealScore
    \/ HealReturn

SpecHealer == InitHealer /\ [][NextHealer]_vars

\* A locator serving analyze calls one at a time, and update_map calls.
InitLocator ==
    /\ AgentIdle
    /\ HealerIdle
    /\ LocatorIdle
    /\ LockIdle
    /\ ObserverIdle
    /\ ExtIdle

NextLocator ==
    \/ \E req \in VisionRequests : AnalyzeDecode(req)
    \/ AnalyzeVit
    \/ \E location \in MapLocations :
          UpdateMap(KwLogin, location, [i \in 1..EmbDim |-> 9])
    \/ \E location \in MapLocations :
          NeuralMapUpdate(KwLogin, [i \in 1..EmbDim |-> 9], location)

SpecLocator == InitLocator /\ [][NextLocator]_vars

\* Observer instances serving observe calls.
InitObserver ==
    /\ AgentIdle
    /\ HealerIdle
    /\ LocatorIdle
    /\ LockIdle
    /\ ObserverIdle
    /\ ExtIdle

NextObserver == \E self \in Observers, request \in ObserverRequests : Observe(self, request)

SpecObserver == InitObserver /\ [][NextObserver]_vars

\* One locator called by two threads at once.
InitSharedLocator ==
    /\ AgentIdle
    /\ HealerIdle
    /\ LocatorIdle
    /\ LockIdle
    /\ ObserverIdle
    /\ ExtIdle

NextSharedLocator ==
    \E t \in Threads :
        \/ \E req \in SharedVisionRequests : AnalyzeEnter(t, req)
        \/ AnalyzeExit(t)
        \/ \E location \in MapLocations :
              UpdateMapEnter(t, KwLogin, location, [i \in 1..EmbDim |-> 9])
        \/ UpdateMapLock(t)
        \/ UpdateMapInsert(t)

SpecSharedLocator == InitSharedLocator /\ [][NextSharedLocator]_vars

\* the engine components at rest
EngineIdle ==
    /\ AgentIdle
    /\ HealerIdle
    /\ LocatorIdle
    /\ LockIdle
    /\ ObserverIdle

\* string_similarity called with every pair of strings.
InitSimilarity ==
    /\ EngineIdle
    /\ ExtIdle

NextSimilarity == \E s1 \in Strings, s2 \in Strings : StringSimilarity(s1, s2)

SpecSimilarity == InitSimilarity /\ [][NextSimilarity]_vars

\* A swarm as new() builds it, called with pre_warm and kill_agents in any order.
InitSwarm ==
    /\ EngineIdle
    /\ ExtIdle

NextSwarm ==
    \/ PreWarm
    \/ \E count \in KillCounts : KillAgents(count)

SpecSwarm == InitSwarm /\ [][NextSwarm]_vars

\* A limiter called freely by one caller, or the limiter of main with main's
\* command loop (main.rs 62-92: the swarm pre-warmed, the limit 100).
InitTraffic ==
    /\ EngineIdle
    /\ EconIdle
    /\ SimIdle
    /\ swarm_ret = None
    /\ queues = NewQueues
    /\ active_requests = 0
    /\ enq_log = <<>>
    /\ adm_log = <<>>
    /\ lim_ret = None
    /\ main_cmd = NoCommand
    /\ main_pc \in {"api", "read"}
    /\ IF main_pc = "read"
       THEN /\ max_concurrency = MainMaxConcurrency
            /\ warm_pool = pre_warm(WarmPoolNew)
       ELSE /\ max_concurrency \in MaxConcurrencies
            /\ warm_pool = WarmPoolNew

NextTraffic ==
    \/ \E request_id \in RequestIds, tier \in TierSet : EnqueueCall(request_id, tier)
    \/ NextCall
    \/ ReleaseCall
    \/ \E cmd \in Commands : MainRead(cmd)
    \/ MainDispatch

SpecTraffic == InitTraffic /\ [][NextTraffic]_vars

\* An economy engine as new() builds it, called one call at a time.
InitEconomy ==
    /\ EngineIdle
    /\ ExtIdle

NextEconomy ==
    \E user_id \in UserIds :
        \/ \E amount \in Amounts : MintCredits(user_id, amount)
        \/ \E mc \in ModuleCosts : UnlockModule(user_id, mc[1], mc[2])
        \/ \E modules \in Batches : UnlockModules(user_id, modules)

SpecEconomy == InitEconomy /\ [][NextEconomy]_vars

----------------------------------------------------------------------------
(* Properties of the agent                                                 *)

\* the states one edge away from a state of S
Successors(wm, S) == {wm[s][i][2] : <<s, i>> \in {e \in EdgeIds(wm) : e[1] \in S}}

\* the states reachable from `start` in at most k edges
ReachWithin(wm, start, k) ==
    LET R[n \in 0..k] == IF n = 0 THEN {start}
                         ELSE R[n - 1] \cup Successors(wm, R[n - 1])
    IN  R[k]

Reachable(wm, start, target) ==
    target \in ReachWithin(wm, start, Cardinality(PageState))

\* the least number of edges of a walk from start to a reachable target
Dist(wm, start, target) ==
    CHOOSE k \in 0..Cardinality(PageState) :
        /\ target \in ReachWithin(wm, start, k)
        /\ \A n \in 0..(k - 1) : target \notin ReachWithin(wm, start, n)

\* the path edges the for loop of execute has gone through so far
AttemptedEdges == IF fp_result.some
                  THEN Len(fp_result.val) - Len(path_iter)
                  ELSE 0

ObserverQueries == Cardinality({i \in DOMAIN calls : calls[i] = "observe"})

\* C2: while execute goes through the planned path, the State-Change
\* Observer has been queried at least once for every action step it has
\* executed and recorded.
C2_ObserverQueriedBeforeEveryAction ==
    pc = "for_path" => ObserverQueries >= AttemptedEdges

C6_BfsOptimal ==
    (pc = "fp_returned" /\ Reachable(world_model, fp_start, fp_target)) =>
        /\ fp_result.some
        /\ Len(fp_result.val) = Dist(world_model, fp_start, fp_target)

\* find_path returned a path of three edges or more
C6_Witness ==
    /\ pc = "fp_returned"
    /\ fp_result.some
    /\ Len(fp_result.val) >= 3

\* C7: find_path never pops more than LoopLimit + 1 queue entries (the pop
\* that exceeds the limit breaks out before expanding), and every call
\* returns, a path or None.
C7_FindPathTerminates ==
    /\ [](loop_count <= LoopLimit + 1)
    /\ <>(pc = "fp_returned")

\* find_path returned None after going round the cycles of the graph
C7_Witness ==
    /\ pc = "fp_returned"
    /\ ~fp_result.some
    /\ loop_count >= 5
    /\ \E s \in visited : \E i \in 1..Len(world_model[s]) :
          world_model[s][i][2] = s

C9_OneStepPerAttemptedEdge ==
    result.some => Len(result.val.steps) = AttemptedEdges

\* the actions of the trace execute is meant to record for a plan: Start
\* Session, then every path edge in order, each edge into Checkout followed
\* by the discount input when the goal asks for a discount; Start Session
\* and Error when there is no path
TraceActions(plan, g) ==
    IF ~plan.some THEN <<"Start Session", "Error">>
    ELSE LET F[i \in 0..Len(plan.val)] ==
                 IF i = 0 THEN <<"Start Session">>
                 ELSE LET e == plan.val[i]
                      IN  IF e[2] = "Checkout"
                             /\ contains(to_lowercase(g), KwDiscount)
                          THEN F[i - 1] \o <<e[1], "Input 'SAVE10'">>
                          ELSE Append(F[i - 1], e[1])
         IN  F[Len(plan.val)]

\* C9 as amended: the returned trace is the Start Session step, then one step
\* per path edge in path order, an edge into Checkout being followed by one
\* discount step when the goal contains "discount"; with no path it is the
\* Start Session step and one Error step.
C9_TraceIsStartEdgesDiscount ==
    result.some =>
        [i \in 1..Len(result.val.steps) |-> result.val.steps[i].action]
            = TraceActions(fp_result, goal)

\* execute returned a trace with a discount step among three edge steps
C9_Witness ==
    /\ result.some
    /\ fp_result.some
    /\ Len(fp_result.val) = 3
    /\ Len(result.val.steps) = 5

\* the verdicts the State-Change Observer gave execute
StableVerdicts == Cardinality({i \in DOMAIN calls : calls[i] = "observe: stable"})
UnstableVerdicts == Cardinality({i \in DOMAIN calls : calls[i] = "observe: unstable"})

\* the steps of a trace that stand for an action of the path
ActionSteps(stps) ==
    {i \in DOMAIN stps :
        stps[i].action \notin {"Start Session", "Input 'SAVE10'", "Error"}}

\* C21: in a returned trace every action that proceeded did so after a
\* stability check that reported stable, and an action is recorded failed
\* only after stability checks that reported unstable.
C21_ActionProceedsOnStableVerdict ==
    result.some =>
        LET stps == result.val.steps
        IN  /\ Cardinality({i \in ActionSteps(stps) : stps[i].status = "completed"})
                  <= StableVerdicts
            /\ (\E i \in ActionSteps(stps) : stps[i].status = "failed")
                  => UnstableVerdicts >= 1

\* the keyword occurs in the goal, whatever the case of the goal's letters
Mentions(g, kw) ==
    \E i \in 1..(Len(g) - Len(kw) + 1) :
        \A j \in 1..Len(kw) : ToLowerChar(g[i + j - 1]) = kw[j]

\* C22: on the world model built by new(), a goal that contains "login" in
\* any case targets Dashboard and is planned through Login (click_login,
\* then submit_credentials); any other goal that contains "purchase" or
\* "checkout" targets Checkout; the plan starts at Home.
C22_GoalClassification ==
    (goal # <<>> /\ world_model = NewWorldModel) =>
        /\ fp_start = "Home"
        /\ fp_target = target_state
        /\ Mentions(goal, KwLogin) =>
              /\ target_state = "Dashboard"
              /\ pc # "find_path" =>
                    fp_result = Some(<< <<"click_login", "Login">>,
                                        <<"submit_credentials", "Dashboard">> >>)
        /\ (/\ ~Mentions(goal, KwLogin)
            /\ (Mentions(goal, KwPurchase) \/ Mentions(goal, KwCheckout))) =>
              target_state = "Checkout"

\* find_path has returned the plan of a goal that names login and checkout
C22_Witness ==
    /\ world_model = NewWorldModel
    /\ pc = "fp_returned"
    /\ Mentions(goal, KwLogin)
    /\ Mentions(goal, KwCheckout)
    /\ fp_result.some

\* the places of the discount step in a trace
Save10Steps(stps) == {i \in DOMAIN stps : stps[i].action = "Input 'SAVE10'"}

\* a discount step follows the step that enters Checkout, and no other step
Save10OnlyAfterCheckout(stps) ==
    \A i \in Save10Steps(stps) :
        /\ i > 1
        /\ stps[i - 1].observation = <<"Transitioned to", "Checkout">>

\* C23 as claimed: on the world model built by new(), every goal that
\* mentions a purchase with a discount gets success = true, at least 4 steps
\* and a discount step right after the step into Checkout and nowhere else;
\* a goal without "discount" gets no discount step.
C23_DiscountPurchaseTrace ==
    (result.some /\ world_model = NewWorldModel) =>
        LET stps == result.val.steps
        IN  /\ (Mentions(goal, KwPurchase) /\ Mentions(goal, KwDiscount)) =>
                  /\ result.val.success
                  /\ Len(stps) >= 4
                  /\ Save10Steps(stps) # {}
            /\ Save10OnlyAfterCheckout(stps)
            /\ ~Mentions(goal, KwDiscount) => Save10Steps(stps) = {}

\* C23 as amended: the same for the goals that mention a purchase with a
\* discount and do not contain "login".
C23_DiscountPurchaseTraceWithoutLogin ==
    (result.some /\ world_model = NewWorldModel) =>
        LET stps == result.val.steps
        IN  /\ (/\ Mentions(goal, KwPurchase)
                /\ Mentions(goal, KwDiscount)
                /\ ~Mentions(goal, KwLogin)) =>
                  /\ result.val.success
                  /\ Len(stps) >= 4
                  /\ Save10Steps(stps) # {}
                  /\ \A i \in DOMAIN stps :
                        stps[i].observation = <<"Transitioned to", "Checkout">> =>
                            (i + 1) \in Save10Steps(stps)
            /\ Save10OnlyAfterCheckout(stps)
            /\ ~Mentions(goal, KwDiscount) => Save10Steps(stps) = {}

\* execute returned the trace of a purchase with a discount
C23_Witness ==
    /\ result.some
    /\ world_model = NewWorldModel
    /\ Mentions(goal, KwPurchase)
    /\ Mentions(goal, KwDiscount)
    /\ ~Mentions(goal, KwLogin)
    /\ Len(result.val.steps) = 5

\* the states a path goes through, the start included
StatesOf(start, path) == <<start>> \o [i \in 1..Len(path) |-> path[i][2]]

\* C28: a path find_path returns is a walk of the world model from start to
\* target that visits no state twice, and it is empty exactly when start is
\* the target.
C28_PathIsSimpleWalk ==
    (pc = "fp_returned" /\ fp_result.some) =>
        LET path == fp_result.val
            sts == StatesOf(fp_start, path)
        IN  /\ \A i \in 1..Len(path) :
                  \E k \in 1..Len(world_model[sts[i]]) :
                      world_model[sts[i]][k] = path[i]
            /\ sts[Len(sts)] = fp_target
            /\ \A i, j \in 1..Len(sts) : sts[i] = sts[j] => i = j
            /\ (path = <<>>) <=> (fp_start = fp_target)

\* find_path returned a path of three edges or more
C28_Witness ==
    /\ pc = "fp_returned"
    /\ fp_result.some
    /\ Len(fp_result.val) >= 3

----------------------------------------------------------------------------
(* Properties of the healer                                                *)

\* the greatest combined score over all the candidates of the scan
MaxCombined(req) ==
    CHOOSE m \in {CombinedScore(req, Candidates[k]) : k \in 1..Len(Candidates)} :
        \A k \in 1..Len(Candidates) : CombinedScore(req, Candidates[k]) <= m

\* C5: a HealResult with healed = true has a similarity_score strictly above
\* the healer's threshold, and the threshold is the one the healer was built
\* with on every call.
C5_HealedAboveThreshold ==
    /\ threshold = NewThreshold
    /\ heal_result.some =>
          (heal_result.val.healed =>
              heal_result.val.similarity_score > threshold)

\* heal returned healed = true
C5_Witness ==
    /\ heal_result.some
    /\ heal_result.val.healed
    /\ heal_result.val.new_selector = Candidates[3]

\* C10: the similarity_score heal reports, healed or not, is the greatest
\* combined score over all candidates, and a healed result names a candidate
\* that attains it.
C10_ReportsMaximumScore ==
    heal_result.some =>
        /\ heal_result.val.similarity_score = MaxCombined(heal_req)
        /\ heal_result.val.healed =>
              \E k \in 1..Len(Candidates) :
                  /\ Candidates[k] = heal_result.val.new_selector
                  /\ CombinedScore(heal_req, Candidates[k]) = MaxCombined(heal_req)

\* C11: heal never returns a HealResult for a request whose
\* last_known_embedding has a length other than the embedding dimension E:
\* such a call fails with InvalidEmbeddingDimension instead.
C11_MismatchedEmbeddingRejected ==
    heal_result.some => Len(heal_req.last_known_embedding) = EmbDim

----------------------------------------------------------------------------
(* Properties of the observer                                              *)

\* C12: the score observe returns lies in [0, 1] and the verdict stable is
\* true exactly when the score is at least the stability threshold 0.95.
C12_StableIffScoreAtLeastThreshold ==
    observer_state.some =>
        /\ observer_state.val.amniotic_state_score \in 0..Scale
        /\ observer_state.val.stable <=>
              (observer_state.val.amniotic_state_score >= 95)

\* C13: for a sample with at least one pending network request the score is
\* at most 0.5 and the verdict is unstable, whatever the other two inputs are.
C13_PendingNetworkDominates ==
    (observer_state.some /\ observer_req.pending_network_requests >= 1) =>
        /\ observer_state.val.amniotic_state_score <= 50
        /\ ~observer_state.val.stable

C15_QuietSampleIsStable ==
    (/\ observer_state.some
     /\ observer_req.pending_network_requests = 0
     /\ observer_req.dom_mutation_rate = 0
     /\ observer_req.layout_shifts = 0) =>
        /\ observer_state.val.amniotic_state_score = Scale
        /\ observer_state.val.stable

\* observe has returned for the quiet sample
C15_Witness ==
    /\ observer_state.some
    /\ observer_req = [pending_network_requests |-> 0, dom_mutation_rate |-> 0,
                       layout_shifts |-> 0]
    /\ observer_state.val.network_idle

----------------------------------------------------------------------------
(* Properties of the locator                                               *)

\* the intent the last returned VisionResult was computed for
ResolvedIntent == vision_result.val.reasoning[2]

\* C1: an analyze call for an intent whose previous resolution had a
\* confidence above the write threshold (0.90) returns the location and the
\* embedding stored in the Neural Map for the intent, with the reasoning
\* "retrieved from memory", and does not run perception.
C1_CacheCoherence ==
    [][(/\ l_pc = "vit"
        /\ l_pc' = "idle"
        /\ vision_result.some
        /\ vision_result.val.found
        /\ vision_result.val.confidence > 90
        /\ vision_result.val.location.val.confidence > 90
        /\ ResolvedIntent = vision_req.intent)
       => (/\ vision_req.intent \in DOMAIN neural_map
           /\ vision_result'.val.reasoning = <<"retrieved from memory">>
           /\ vision_result'.val.location =
                 Some(neural_map[vision_req.intent].location)
           /\ vision_result'.val.semantic_embedding =
                 neural_map[vision_req.intent].embedding)]_vars

\* C16: analyze on an image that cannot be decoded (not base64, or base64 of
\* bytes that are no image) returns found = false with a decode-error
\* reason, no location and no candidates.
C16_UndecodableImageNotFound ==
    (/\ l_pc = "idle"
     /\ vision_result.some
     /\ vision_req.image_base64.kind # "image") =>
        /\ ~vision_result.val.found
        /\ vision_result.val.location = None
        /\ vision_result.val.candidates = <<>>
        /\ vision_result.val.reasoning = DecodeFailure.reasoning

\* the intent names none of the elements the locator knows
MatchesNothing(intent) == IsGeneric(intent) \/ intent = FailTest

\* C17: found is true exactly when the result carries a location, and an
\* intent that matches nothing gets found = false, no location and no
\* candidates.
C17_FoundIffPrimaryPresent ==
    (l_pc = "idle" /\ vision_result.some) =>
        /\ vision_result.val.found <=> vision_result.val.location.some
        /\ MatchesNothing(vision_req.intent) =>
              /\ ~vision_result.val.found
              /\ vision_result.val.location = None
              /\ vision_result.val.candidates = <<>>

Area(box) == box.width * box.height

\* C18: the location analyze returns is one of its candidates, no candidate
\* has a higher confidence, and a candidate of the same confidence has no
\* larger area.
C18_PrimaryHasHighestConfidence ==
    (vision_result.some /\ vision_result.val.location.some) =>
        LET primary == vision_result.val.location.val
            cands == vision_result.val.candidates
        IN  /\ \E i \in 1..Len(cands) : cands[i] = primary
            /\ \A i \in 1..Len(cands) :
                  \/ cands[i].confidence < primary.confidence
                  \/ /\ cands[i].confidence = primary.confidence
                     /\ Area(cands[i]) <= Area(primary)

\* analyze returned a location together with its two noise candidates
C18_Witness ==
    /\ vision_result.some
    /\ vision_result.val.location.some
    /\ Len(vision_result.val.candidates) = 3
    /\ vision_result.val.candidates[2].confidence > 0

\* C19: every entry of the Neural Map holds a resolution whose confidence
\* is above the write threshold 0.90, and no step removes an entry.
C19_MapWriteDiscipline ==
    /\ [](\A k \in DOMAIN neural_map : neural_map[k].location.confidence > 90)
    /\ [][DOMAIN neural_map \subseteq DOMAIN neural_map']_vars

\* C20: the mutex of the Neural Map is held only by a thread inside the one
\* map write of update_map, never by a thread whose perception is in
\* progress, so a thread waiting for the mutex never waits behind perception.
C20_LockNotHeldAcrossPerception ==
    /\ \A t \in Threads : thread_pc[t] = "perception" => mutex # t
    /\ mutex # 0 => thread_pc[mutex] = "insert"
    /\ \A t \in Threads :
          (thread_pc[t] = "lock" /\ mutex # 0) => thread_pc[mutex] # "perception"

\* one thread runs perception while the other holds the mutex for its map
\* write
C20_Witness ==
    \E t, u \in Threads :
        /\ t # u
        /\ mutex = u
        /\ thread_pc[t] = "perception"

----------------------------------------------------------------------------
(* Properties of string_similarity                                         *)

\* the strings one insertion, deletion or substitution away from s, none
\* longer than maxlen
OneEdit(s, maxlen) ==
    {[j \in 1..(Len(s) - 1) |-> IF j < i THEN s[j] ELSE s[j + 1]] : i \in 1..Len(s)}
    \cup {[s EXCEPT ![i] = c] : i \in 1..Len(s), c \in Alphabet}
    \cup (IF Len(s) < maxlen
          THEN {[j \in 1..(Len(s) + 1) |->
                    IF j < i THEN s[j] ELSE IF j = i THEN c ELSE s[j - 1]] :
                  i \in 1..(Len(s) + 1), c \in Alphabet}
          ELSE {})

\* the strings at most k edits away from a string of S
RECURSIVE WithinEdits(_, _, _)
WithinEdits(S, k, maxlen) ==
    IF k = 0 THEN S
    ELSE WithinEdits(S \cup UNION {OneEdit(s, maxlen) : s \in S}, k - 1, maxlen)

\* the least number of insertions, deletions and substitutions that turn s1
\* into s2; a shortest edit script needs no string longer than the longer
\* of the two
EditDistance(s1, s2) ==
    LET m == Max2(Len(s1), Len(s2))
    IN  CHOOSE k \in 0..m :
            /\ s2 \in WithinEdits({s1}, k, m)
            /\ \A j \in 0..(k - 1) : s2 \notin WithinEdits({s1}, j, m)

\* C27: string_similarity(s1, s2) is 1 - d / max(len(s1), len(s2)) for the
\* edit distance d of the two strings (to the precision of the fixed-point
\* scale), 1 when both are empty, 1 exactly when s1 = s2, and within [0, 1].
C27_SimilarityIsOneMinusNormalisedDistance ==
    sim_result.some =>
        LET d == EditDistance(sim_s1, sim_s2)
            m == IF Len(sim_s1) > Len(sim_s2) THEN Len(sim_s1) ELSE Len(sim_s2)
            r == sim_result.val
        IN  /\ m = 0 => r = Scale
            /\ m > 0 => /\ m * (Scale - r) <= d * Scale
                        /\ d * Scale < m * (Scale - r + 1)
            /\ (r = Scale) <=> (sim_s1 = sim_s2)
            /\ r \in 0..Scale

\* two different strings of two characters or more that share a part
C27_Witness ==
    /\ sim_result.some
    /\ Len(sim_s1) >= 2
    /\ Len(sim_s2) >= 2
    /\ Len(sim_s1) # Len(sim_s2)
    /\ sim_result.val > 0
    /\ sim_result.val < Scale

----------------------------------------------------------------------------
(* Properties of the swarm                                                 *)

\* C24: once the pool was warmed or a kill was served it holds between 20
\* and 50 agents; a kill_agents(count) that leaves fewer than 20 agents
\* (none when count >= available) restores the pool to 50, sets the status
\* REPLENISHED and returns 50 minus the agents left; any other kill
\* returns 0.
C24_PoolReplenished ==
    /\ warm_pool.status # "COLD" => warm_pool.available_agents \in 20..50
    /\ swarm_ret.some =>
         LET count == swarm_ret.val.count
             before == swarm_ret.val.before
             left == IF count >= before THEN 0 ELSE before - count
         IN  /\ warm_pool.available_agents \in 20..50
             /\ IF left < 20
                THEN /\ warm_pool.available_agents = 50
                     /\ warm_pool.status = "REPLENISHED"
                     /\ swarm_ret.val.ret = 50 - left
                ELSE /\ warm_pool.available_agents = left
                     /\ swarm_ret.val.ret = 0

\* a kill of more agents than the warmed pool held
C24_Witness ==
    /\ swarm_ret.some
    /\ swarm_ret.val.before > 0
    /\ swarm_ret.val.count > swarm_ret.val.before
    /\ swarm_ret.val.ret = 50
    /\ warm_pool.status = "REPLENISHED"

----------------------------------------------------------------------------
(* Properties of the rate limiter and of main's loop                       *)

\* the entries of a log that belong to a tier, in the order of the log
OfTier(log, t) == SelectSeq(log, LAMBDA e : e[2] = t)

IsPrefix(a, b) ==
    /\ Len(a) <= Len(b)
    /\ \A i \in 1..Len(a) : a[i] = b[i]

\* C25: a next() that returns a request never returns an Enterprise request
\* while the Sovereign queue holds one, nor a Starter request while the
\* Sovereign or the Enterprise queue holds one, and the requests of one tier
\* are returned in the order they were enqueued.
C25_TierPriorityAndFifo ==
    /\ \A t \in TierSet : IsPrefix(OfTier(adm_log, t), OfTier(enq_log, t))
    /\ (lim_ret.some /\ lim_ret.val.op = "next" /\ lim_ret.val.ret.some) =>
         LET served == adm_log[Len(adm_log)][2]
             before == lim_ret.val.queues_before
         IN  /\ served = "Enterprise" => before["Sovereign"] = <<>>
             /\ served = "Starter" =>
                   before["Sovereign"] = <<>> /\ before["Enterprise"] = <<>>

\* a Sovereign request enqueued after a Starter request was returned before it
C25_Witness ==
    /\ Len(adm_log) >= 2
    /\ enq_log[1][2] = "Starter"
    /\ adm_log[1][2] = "Sovereign"
    /\ adm_log[2][2] = "Starter"

\* C29: active_requests stays between 0 and max_concurrency; next() at the
\* limit returns None and takes nothing from the queues; next() adds one to
\* active_requests exactly when it returns a request; release() at 0 changes
\* nothing; and whenever main is about to read a command active_requests is
\* 0 and the queues are empty.
C29_ActiveWithinLimit ==
    /\ active_requests \in 0..max_concurrency
    /\ lim_ret.some =>
         LET c == lim_ret.val
         IN  /\ (c.op = "next" /\ c.active_before >= max_concurrency) =>
                   /\ ~c.ret.some
                   /\ queues = c.queues_before
                   /\ active_requests = c.active_before
             /\ c.op = "next" =>
                   active_requests = c.active_before + (IF c.ret.some THEN 1 ELSE 0)
             /\ (c.op = "release" /\ c.active_before = 0) => active_requests = 0
    /\ main_pc = "read" =>
         /\ active_requests = 0
         /\ \A t \in TierSet : queues[t] = <<>>

\* next() was refused at the limit with a request waiting
C29_Witness ==
    /\ lim_ret.some
    /\ lim_ret.val.op = "next"
    /\ max_concurrency >= 1
    /\ lim_ret.val.active_before = max_concurrency
    /\ \E t \in TierSet : queues[t] # <<>>
    /\ ~lim_ret.val.ret.some

----------------------------------------------------------------------------
(* Properties of the economy engine                                        *)

\* the sum of the costs of a batch
RECURSIVE SumCosts(_)
SumCosts(modules) ==
    IF modules = <<>> THEN 0 ELSE Head(modules)[2] + SumCosts(Tail(modules))

\* C26: an unlock_module with credits < cost and an unlock_modules with
\* credits < the sum of the batch return Err("Insufficient credits") and
\* leave balances and the transaction log as they were; an unlock_modules
\* that succeeds appends one transaction.
C26_UnlockAllOrNothing ==
    econ_ret.some =>
        LET c == econ_ret.val
            known == c.user_id \in DOMAIN c.balances_before
            cost == IF c.op = "unlock_module" THEN c.args[2]
                    ELSE IF c.op = "unlock_modules" THEN SumCosts(c.args)
                    ELSE 0
        IN  /\ (/\ c.op \in {"unlock_module", "unlock_modules"}
                /\ known
                /\ c.balances_before[c.user_id].credits < cost) =>
                  /\ ~c.result.ok
                  /\ c.result.val = "Insufficient credits"
                  /\ balances = c.balances_before
                  /\ transactions = c.transactions_before
            /\ (c.op = "unlock_modules" /\ c.result.ok) =>
                  /\ Len(transactions) = Len(c.transactions_before) + 1
                  /\ SubSeq(transactions, 1, Len(c.transactions_before))
                        = c.transactions_before

\* a batch of two modules refused although the first alone was affordable
C26_Witness ==
    /\ econ_ret.some
    /\ econ_ret.val.op = "unlock_modules"
    /\ econ_ret.val.user_id \in DOMAIN econ_ret.val.balances_before
    /\ Len(econ_ret.val.args) = 2
    /\ econ_ret.val.args[1][2]
          <= econ_ret.val.balances_before[econ_ret.val.user_id].credits
    /\ ~econ_ret.val.result.ok

\* C30: every user's credits are non-negative.
C30_CreditsNonNegative ==
    \A u \in DOMAIN balances : balances[u].credits >= 0

====
